---------------------------- MODULE Spec2Model ----------------------------
(***************************************************************************)
(* Model of the streaming content analytics dashboard (src/app.py): the    *)
(* titles table, the memoized aggregation queries, the scoped database     *)
(* connection and the top-to-bottom script pass that renders the sections. *)
(*                                                                         *)
(* Scores are kept in tenths (71 is 7.1) and averages in hundredths, so    *)
(* that the arithmetic of AVG and ROUND(.., 2) is exact integer            *)
(* arithmetic.  Where the engine leaves an outcome open (the order of rows *)
(* with equal sort keys, the row a bare column of a GROUP BY is taken      *)
(* from, the direction an exact half is rounded in binary floating point)  *)
(* an operation yields the SET of results the engine may return and the    *)
(* step that runs the query picks one of them.                             *)
(***************************************************************************)
EXTENDS Integers, Sequences, FiniteSets

VARIABLES
    titles,       \* the titles table of netflix.db: a sequence of rows
    dbExists,     \* os.path.exists(DB_PATH)
    dbReadable,   \* os.access(DB_PATH, os.R_OK)
    pc,           \* position of the script pass (or one of DirectPcs)
    status,       \* "running", "stopped" (st.stop), "crashed" (uncaught), "done"
    call,         \* the operation call in flight (inside the connection scope)
    conn,         \* number of connections currently open
    opened,       \* number of connections opened during the current pass
    cache,        \* st.cache_data: set of memoized [op, args, val] entries
    results,      \* value returned by the latest call of each operation
    notices,      \* st.error messages surfaced so far
    filters,      \* sidebar widget values of the current pass
    shown,        \* what each section of the page has rendered
    country_counts, \* per-country totals of the map section
    decade_series,  \* the Movies and Shows series of the decade chart
    passes,       \* number of script passes started
    outcome       \* how the latest call of each operation ended

vars == <<titles, dbExists, dbReadable, pc, status, call, conn, opened, cache,
          results, notices, filters, shown, country_counts, decade_series, passes,
          outcome>>

----------------------------------------------------------------------------
(* Bounds of the model *)

MaxRows == 3

MaxLimit == 2

MaxPasses == 2

MaxScriptRows == 2

----------------------------------------------------------------------------
(* Values *)

\* SQL NULL in a numeric column, and Python None for a numeric argument
NULL == -1

\* SQL NULL in a text column
NullText == "<NULL>"

\* Python None for the content_type argument
NoType == "<None>"

\* an argument that is no number where one is expected (the text 'abc')
BadNumber == -2

\* a content type that is none of All, Movie and Show
BadType == "Documentary"

Min(a, b) == IF a <= b THEN a ELSE b

Max(a, b) == IF a >= b THEN a ELSE b

\* UPPER(type) of SQLite, on the spellings the model stores
Upper(t) ==
    CASE t = "Movie" -> "MOVIE"
      [] t = "Show"  -> "SHOW"
      [] OTHER       -> t

\* Python truthiness of a numeric argument: None and 0 are falsy
Truthy(x) == x # NULL /\ x # 0

\* Python truthiness of a string argument: None and "" are falsy
TruthyStr(s) == s # NoType /\ s # ""

----------------------------------------------------------------------------
(* WHERE clauses.  A condition is one entry of the `conditions` list.      *)

CondTypeIs(t) == [k |-> "type", c |-> "type", n |-> 0, s |-> t]

CondNotNull(col) == [k |-> "notnull", c |-> col, n |-> 0, s |-> ""]

CondGe(col, v) == [k |-> "ge", c |-> col, n |-> v, s |-> ""]

CondLe(col, v) == [k |-> "le", c |-> col, n |-> v, s |-> ""]

CondTextNotNull(col) == [k |-> "textnotnull", c |-> col, n |-> 0, s |-> ""]

CondTextNe(col, v) == [k |-> "textne", c |-> col, n |-> 0, s |-> v]

\* SQL evaluation of one condition on one row; a comparison with NULL is
\* not true, so the row is not selected
Sat(row, cond) ==
    CASE cond.k = "type"        -> Upper(row.type) = cond.s
      [] cond.k = "notnull"     -> row[cond.c] # NULL
      [] cond.k = "ge"          -> row[cond.c] # NULL /\ row[cond.c] >= cond.n
      [] cond.k = "le"          -> row[cond.c] # NULL /\ row[cond.c] <= cond.n
      [] cond.k = "textnotnull" -> row[cond.c] # NullText
      [] cond.k = "textne"      -> row[cond.c] # NullText /\ row[cond.c] # cond.s

\* " AND ".join(conditions), "1=1" when the list is empty
Where(row, conds) == \A i \in DOMAIN conds : Sat(row, conds[i])

\* rowids of the rows the WHERE clause selects
Eligible(conds) == {i \in DOMAIN titles : Where(titles[i], conds)}

----------------------------------------------------------------------------
(* Query execution helpers *)

RECURSIVE SumCol(_, _)
\* SUM(col) over the rows with the rowids in S
SumCol(S, col) ==
    IF S = {} THEN 0
    ELSE LET i == CHOOSE j \in S : TRUE
         IN  titles[i][col] + SumCol(S \ {i}, col)

\* ORDER BY key ASC: every arrangement of the elements of S with ascending
\* keys; elements with equal keys come in any order
Orderings(S, key) ==
    LET n == Cardinality(S)
    IN  {f \in [1..n -> S] :
            /\ \A i, j \in 1..n : i # j => f[i] # f[j]
            /\ \A i, j \in 1..n : i < j => key[f[i]] <= key[f[j]]}

\* LIMIT n of SQLite: the first n rows, all of them when n is negative
Limit(seq, n) ==
    IF n < 0 THEN seq ELSE [k \in 1..Min(n, Len(seq)) |-> seq[k]]

\* ROUND(num/den, 2) of a value in hundredths: the nearest integer, either
\* neighbour when num/den lies exactly halfway
Round2(num, den) ==
    LET q == num \div den
        r == num % den
    IN  IF 2 * r < den THEN {q}
        ELSE IF 2 * r > den THEN {q + 1}
        ELSE {q, q + 1}

----------------------------------------------------------------------------
(* Conditions shared by the query functions *)

\* the same with `if min_imdb is not None` for the score: 0 is a bound
AppendFiltersScoreNotNone(conds, a) ==
    LET c1 == IF Truthy(a.year_min)
              THEN Append(conds, CondGe("release_year", a.year_min))
              ELSE conds
        c2 == IF Truthy(a.year_max)
              THEN Append(c1, CondLe("release_year", a.year_max))
              ELSE c1
    IN  IF a.min_imdb # NULL
        THEN Append(c2, CondGe("imdb_score", a.min_imdb))
        ELSE c2

\* the same without the `if year_max:` statement
AppendFiltersNoYearMax(conds, a) ==
    LET c1 == IF Truthy(a.year_min)
              THEN Append(conds, CondGe("release_year", a.year_min))
              ELSE conds
    IN  IF Truthy(a.min_imdb) /\ a.min_imdb > 0
        THEN Append(c1, CondGe("imdb_score", a.min_imdb))
        ELSE c1

\* the three `if` statements on year_min, year_max and min_imdb
AppendFilters(conds, a) ==
    LET c1 == IF Truthy(a.year_min)
              THEN Append(conds, CondGe("release_year", a.year_min))
              ELSE conds
        c2 == IF Truthy(a.year_max)
              THEN Append(c1, CondLe("release_year", a.year_max))
              ELSE c1
    IN  IF Truthy(a.min_imdb) /\ a.min_imdb > 0
        THEN Append(c2, CondGe("imdb_score", a.min_imdb))
        ELSE c2

\* the `if content_type and content_type != "All"` block
AppendType(conds, a) ==
    IF TruthyStr(a.content_type) /\ a.content_type # "All"
    THEN IF a.content_type = "Movie"
         THEN Append(conds, CondTypeIs("MOVIE"))
         ELSE Append(conds, CondTypeIs("SHOW"))
    ELSE conds

----------------------------------------------------------------------------
(* The query functions: each yields the set of result tables the engine may *)
(* return for the arguments a on the current titles table.                  *)

\* the ranking query with ORDER BY imdb_score DESC whatever the direction
RankQueryDescOnly(conds, dir, limit) ==
    LET E == Eligible(conds)
        key == [i \in E |-> 0 - titles[i].imdb_score]
        Sel(i) == [title |-> titles[i].title,
                   imdb_score |-> titles[i].imdb_score,
                   release_year |-> titles[i].release_year]
    IN  {Limit([k \in 1..Cardinality(E) |-> Sel(f[k])], limit) :
            f \in Orderings(E, key)}

\* the ranking query cutting to `limit` rows before it sorts them
RankQueryLimitFirst(conds, dir, limit) ==
    LET E == Eligible(conds)
        m == IF limit < 0 THEN Cardinality(E) ELSE Min(limit, Cardinality(E))
        key == [i \in E |-> IF dir = "DESC" THEN 0 - titles[i].imdb_score
                                              ELSE titles[i].imdb_score]
        Sel(i) == [title |-> titles[i].title,
                   imdb_score |-> titles[i].imdb_score,
                   release_year |-> titles[i].release_year]
    IN  UNION {{[k \in 1..m |-> Sel(f[k])] : f \in Orderings(S, [i \in S |-> key[i]])} :
               S \in {T \in SUBSET E : Cardinality(T) = m}}

\* SELECT title, imdb_score, release_year ... ORDER BY imdb_score <dir> LIMIT
RankQuery(conds, dir, limit) ==
    LET E == Eligible(conds)
        key == [i \in E |-> IF dir = "DESC" THEN 0 - titles[i].imdb_score
                                              ELSE titles[i].imdb_score]
        Sel(i) == [title |-> titles[i].title,
                   imdb_score |-> titles[i].imdb_score,
                   release_year |-> titles[i].release_year]
    IN  {Limit([k \in 1..Cardinality(E) |-> Sel(f[k])], limit) :
            f \in Orderings(E, key)}

get_top_movies(a) ==
    RankQuery(AppendFilters(<<CondTypeIs("MOVIE"), CondNotNull("imdb_score")>>, a),
              "DESC", a.limit)

\* get_bottom_movies selecting the rows of type SHOW
get_bottom_movies_of_shows(a) ==
    RankQuery(AppendFilters(<<CondTypeIs("SHOW"), CondNotNull("imdb_score")>>, a),
              "ASC", a.limit)

get_bottom_movies(a) ==
    RankQuery(AppendFilters(<<CondTypeIs("MOVIE"), CondNotNull("imdb_score")>>, a),
              "ASC", a.limit)

get_top_shows(a) ==
    RankQuery(AppendFilters(<<CondTypeIs("SHOW"), CondNotNull("imdb_score")>>, a),
              "DESC", a.limit)

get_bottom_shows(a) ==
    RankQuery(AppendFilters(<<CondTypeIs("SHOW"), CondNotNull("imdb_score")>>, a),
              "ASC", a.limit)

\* SELECT col, COUNT(*) ... GROUP BY col ORDER BY count DESC LIMIT limit
CountQuery(conds, col, limit) ==
    LET E == Eligible(conds)
        G == {[key |-> v, count |-> Cardinality({i \in E : titles[i][col] = v})] :
                 v \in {titles[i][col] : i \in E}}
        key == [g \in G |-> 0 - g.count]
    IN  {Limit(f, limit) : f \in Orderings(G, key)}

\* fixed LIMIT of the production countries query
CountryLimit == 50

\* fixed LIMIT of the age certification query
CertLimit == 5

get_production_countries_data(a) ==
    LET base == <<CondTextNotNull("production_countries"),
                  CondTextNe("production_countries", ""),
                  CondTextNe("production_countries", "[]")>>
        R == CountQuery(base \o AppendFilters(AppendType(<<>>, a), a),
                        "production_countries", CountryLimit)
    IN  {[k \in DOMAIN r |-> [production_countries |-> r[k].key,
                               count |-> r[k].count]] : r \in R}

get_age_certification_data(a) ==
    LET base == <<CondTextNotNull("age_certification"),
                  CondTextNe("age_certification", ""),
                  CondTextNe("age_certification", "N/A")>>
        R == CountQuery(AppendFilters(AppendType(base, a), a),
                        "age_certification", CertLimit)
    IN  {[k \in DOMAIN r |-> [age_certification |-> r[k].key,
                               count |-> r[k].count]] : r \in R}

\* lowest release year the decade query counts
DecadeFloor == 1940

\* the decade nearest to the year instead of the one it falls in
DecadeNearest(year) == ((year + 5) \div 10) * 10

\* (FLOOR(release_year / 10) * 10)
Decade(year) == (year \div 10) * 10

get_decade_data(a) ==
    LET base == <<CondNotNull("release_year"), CondGe("release_year", DecadeFloor)>>
        E == Eligible(base \o AppendFilters(AppendType(<<>>, a), a))
        K == {<<Decade(titles[i].release_year), titles[i].type>> : i \in E}
        G == {[decade |-> k[1], type |-> k[2],
               count |-> Cardinality({i \in E :
                            /\ Decade(titles[i].release_year) = k[1]
                            /\ titles[i].type = k[2]})] : k \in K}
        key == [g \in G |-> g.decade]
    IN  Orderings(G, key)

\* get_top_seasons_shows with GROUP BY title, release_year
get_top_seasons_shows_by_year(a) ==
    LET E == Eligible(AppendFilters(<<CondTypeIs("SHOW"), CondNotNull("seasons")>>, a))
        K == {<<titles[i].title, titles[i].release_year>> : i \in E}
        Of(k) == {i \in E : titles[i].title = k[1] /\ titles[i].release_year = k[2]}
        G == {[title |-> k[1], total_seasons |-> SumCol(Of(k), "seasons"),
               release_year |-> k[2]] : k \in K}
        key == [g \in G |-> 0 - g.total_seasons]
    IN  {Limit(f, a.limit) : f \in Orderings(G, key)}

get_top_seasons_shows(a) ==
    LET E == Eligible(AppendFilters(<<CondTypeIs("SHOW"), CondNotNull("seasons")>>, a))
        T == {titles[i].title : i \in E}
        Of(t) == {i \in E : titles[i].title = t}
        \* release_year is a bare column: it comes from any row of the group
        G == UNION {{[title |-> t, total_seasons |-> SumCol(Of(t), "seasons"),
                      release_year |-> titles[i].release_year] : i \in Of(t)} : t \in T}
        n == Cardinality(T)
    IN  {Limit(f, a.limit) :
            f \in {g \in [1..n -> G] :
                      /\ \A i, j \in 1..n : i # j => g[i].title # g[j].title
                      /\ \A i, j \in 1..n :
                            i < j => g[i].total_seasons >= g[j].total_seasons}}

\* get_avg_scores_by_type without `AND tmdb_score IS NOT NULL`; AVG skips
\* the NULLs of its own column
get_avg_scores_any_tmdb(a) ==
    LET E == Eligible(AppendFilters(<<CondNotNull("imdb_score")>>, a))
        T == {titles[i].type : i \in E}
        Of(t) == {i \in E : titles[i].type = t}
        Tm(t) == {i \in Of(t) : titles[i].tmdb_score # NULL}
        G == UNION {{[type |-> t, avg_imdb_score |-> x, avg_tmdb_score |-> y] :
                        x \in Round2(10 * SumCol(Of(t), "imdb_score"), Cardinality(Of(t))),
                        y \in IF Tm(t) = {} THEN {NULL}
                              ELSE Round2(10 * SumCol(Tm(t), "tmdb_score"),
                                          Cardinality(Tm(t)))} :
                    t \in T}
        n == Cardinality(T)
    IN  {g \in [1..n -> G] : \A i, j \in 1..n : i # j => g[i].type # g[j].type}

get_avg_scores_by_type(a) ==
    LET base == <<CondNotNull("imdb_score"), CondNotNull("tmdb_score")>>
        E == Eligible(base \o AppendFilters(<<>>, a))
        T == {titles[i].type : i \in E}
        Of(t) == {i \in E : titles[i].type = t}
        G == UNION {{[type |-> t, avg_imdb_score |-> x, avg_tmdb_score |-> y] :
                        x \in Round2(10 * SumCol(Of(t), "imdb_score"), Cardinality(Of(t))),
                        y \in Round2(10 * SumCol(Of(t), "tmdb_score"), Cardinality(Of(t)))} :
                    t \in T}
        n == Cardinality(T)
    IN  {g \in [1..n -> G] : \A i, j \in 1..n : i # j => g[i].type # g[j].type}

\* fallback year range of get_year_range
DefaultMinYear == 1900

DefaultMaxYear == 2024

\* SELECT MIN(release_year), MAX(release_year) ... WHERE release_year IS NOT NULL
get_year_range ==
    LET Y == {titles[i].release_year : i \in Eligible(<<CondNotNull("release_year")>>)}
    IN  IF Y = {} THEN {<<DefaultMinYear, DefaultMaxYear>>}
        ELSE {<<CHOOSE y \in Y : \A z \in Y : y <= z,
                CHOOSE y \in Y : \A z \in Y : y >= z>>}

----------------------------------------------------------------------------
(* Operations and their calls *)

RankOps == {"get_top_movies", "get_bottom_movies", "get_top_shows", "get_bottom_shows"}

TypedOps == {"get_production_countries_data", "get_decade_data",
             "get_age_certification_data"}

AggOps == RankOps \cup TypedOps \cup {"get_top_seasons_shows", "get_avg_scores_by_type"}

Ops == AggOps \cup {"get_year_range"}

\* the result tables the query of operation op may return for arguments a
Exec(op, a) ==
    CASE op = "get_year_range"                -> get_year_range
      [] op = "get_top_movies"                -> get_top_movies(a)
      [] op = "get_bottom_movies"             -> get_bottom_movies(a)
      [] op = "get_top_shows"                 -> get_top_shows(a)
      [] op = "get_bottom_shows"              -> get_bottom_shows(a)
      [] op = "get_production_countries_data" -> get_production_countries_data(a)
      [] op = "get_decade_data"               -> get_decade_data(a)
      [] op = "get_age_certification_data"    -> get_age_certification_data(a)
      [] op = "get_top_seasons_shows"         -> get_top_seasons_shows(a)
      [] op = "get_avg_scores_by_type"        -> get_avg_scores_by_type(a)

\* pd.DataFrame(): the empty table
EmptyFrame == <<>>

Args(l, lo, hi, mi, ct) ==
    [limit |-> l, year_min |-> lo, year_max |-> hi, min_imdb |-> mi, content_type |-> ct]

NoArgs == Args(NULL, NULL, NULL, NULL, NoType)

NoCall == [op |-> "", args |-> NoArgs, stage |-> "idle"]

----------------------------------------------------------------------------
(* The script pass: the module-level statements, top to bottom *)

ScriptOrder ==
    <<"verify", "year_range", "sidebar",
      "top_movies", "bottom_movies", "top_shows", "bottom_shows", "rankings",
      "map_data", "map",
      "decade_data", "age_cert_data", "top_seasons_data", "avg_scores_data",
      "decade_chart", "age_cert_chart", "seasons_chart", "scores_chart", "done">>

NextPc(p) ==
    LET i == CHOOSE k \in DOMAIN ScriptOrder : ScriptOrder[k] = p
    IN  ScriptOrder[i + 1]

\* the statements of the script that call a query function
CallPcs == {"year_range", "top_movies", "bottom_movies", "top_shows", "bottom_shows",
            "map_data", "decade_data", "age_cert_data", "top_seasons_data",
            "avg_scores_data"}

OpAt(p) ==
    CASE p = "year_range"       -> "get_year_range"
      [] p = "top_movies"       -> "get_top_movies"
      [] p = "bottom_movies"    -> "get_bottom_movies"
      [] p = "top_shows"        -> "get_top_shows"
      [] p = "bottom_shows"     -> "get_bottom_shows"
      [] p = "map_data"         -> "get_production_countries_data"
      [] p = "decade_data"      -> "get_decade_data"
      [] p = "age_cert_data"    -> "get_age_certification_data"
      [] p = "top_seasons_data" -> "get_top_seasons_shows"
      [] p = "avg_scores_data"  -> "get_avg_scores_by_type"

\* the limit the script passes to the ranking and seasons queries
ScriptLimit == 10

\* the arguments the script passes to operation op under the sidebar filters
ScriptArgs(op) ==
    LET lo == filters.year_range[1]
        hi == filters.year_range[2]
        mi == IF filters.min_imdb > 0 THEN filters.min_imdb ELSE NULL
        ct == IF filters.content_type # "All" THEN filters.content_type ELSE NoType
    IN  CASE op = "get_year_range" -> NoArgs
          [] op \in RankOps \cup {"get_top_seasons_shows"} ->
                Args(ScriptLimit, lo, hi, mi, NoType)
          [] op \in TypedOps -> Args(NULL, lo, hi, mi, ct)
          [] op = "get_avg_scores_by_type" -> Args(NULL, lo, hi, mi, NoType)

\* argument values of the direct calls
YearArgs == {NULL, 2000}

ScoreArgs == {NULL, 0, 70}

TypeArgs == {NoType, "All", "Movie", "Show"}

DirectArgs(op) ==
    CASE op = "get_year_range" -> {NoArgs}
      [] op \in RankOps \cup {"get_top_seasons_shows"} ->
            {Args(l, lo, hi, mi, NoType) :
                l \in 0..MaxLimit, lo \in YearArgs, hi \in YearArgs, mi \in ScoreArgs}
      [] op \in TypedOps ->
            {Args(NULL, lo, hi, mi, ct) :
                lo \in YearArgs, hi \in YearArgs, mi \in ScoreArgs, ct \in TypeArgs}
      [] op = "get_avg_scores_by_type" ->
            {Args(NULL, lo, hi, mi, NoType) :
                lo \in YearArgs, hi \in YearArgs, mi \in ScoreArgs}

\* the same with argument values no widget of the sidebar can produce
FilterArgs(op) ==
    {Args(NULL, lo, hi, mi, ct) :
        lo \in {NULL, 2000, BadNumber}, hi \in {NULL, BadNumber},
        mi \in {NULL, 70, BadNumber}, ct \in {NoType, "", "Movie", BadType}}

\* `min_imdb > 0` on a text raises TypeError while the conditions are built
RaisesTypeError(a) == a.min_imdb = BadNumber

\* the text interpolated into `release_year >= {year_min}` is read as a
\* column name, and the statement is rejected
BadQuery(a) == a.year_min = BadNumber \/ a.year_max = BadNumber

\* pc of a process whose caller calls the query functions directly, and
\* the functions that caller uses
DirectPcs == {"direct", "direct_rank", "direct_seasons", "direct_decade", "direct_avg",
              "direct_filters"}

DirectOps(p) ==
    CASE p = "direct_rank"    -> RankOps
      [] p = "direct_filters" -> TypedOps
      [] p = "direct_seasons" -> {"get_top_seasons_shows"}
      [] p = "direct_decade"  -> {"get_decade_data"}
      [] p = "direct_avg"     -> {"get_avg_scores_by_type"}
      [] OTHER                -> Ops

\* the calls that may be made in the current state: the one the script is
\* at, or, for direct calls, any call first and then the same call again
Requested ==
    IF pc \in DirectPcs
    THEN IF call.op = ""
         THEN UNION {{<<o, a>> : a \in IF pc = "direct_filters" THEN FilterArgs(o)
                                           ELSE DirectArgs(o)} : o \in DirectOps(pc)}
         ELSE {<<call.op, call.args>>}
    ELSE IF pc \in CallPcs THEN {<<OpAt(pc), ScriptArgs(OpAt(pc))>>} ELSE {}

----------------------------------------------------------------------------
(* st.cache_data and the connection scope *)

\* a query function without its @st.cache_data decorator finds no entry
CachedNever(op, a) == FALSE

Cached(op, a) == \E e \in cache : e.op = op /\ e.args = a

CachedVal(op, a) == (CHOOSE e \in cache : e.op = op /\ e.args = a).val

\* get_db_connection without the close() of its finally block
CloseLeak(c) == c

\* conn.close() in the finally block of get_db_connection
Close(c) == c - 1

\* the call of op returns val to its caller
Return(op, a, val, how) ==
    /\ results' = [results EXCEPT ![op] = val]
    /\ outcome' = [outcome EXCEPT ![op] = how]
    /\ call' = [op |-> op, args |-> a, stage |-> "idle"]
    /\ pc' = IF pc \in DirectPcs THEN pc ELSE NextPc(pc)
    /\ UNCHANGED <<status, notices>>

\* get_db_connection reports msg with st.error and calls st.stop(): the
\* StopException it raises is no Exception, so the `except Exception` of the
\* query function lets it pass; only the bare `except:` around the script's
\* call of get_year_range catches it
Stop(op, a, msg, how) ==
    /\ notices' = notices \cup {msg}
    /\ outcome' = [outcome EXCEPT ![op] = how]
    /\ call' = [op |-> op, args |-> a, stage |-> "idle"]
    /\ IF pc = "year_range"
       THEN /\ results' = [results EXCEPT ![op] = <<DefaultMinYear, DefaultMaxYear>>]
            /\ pc' = NextPc(pc)
            /\ UNCHANGED status
       ELSE /\ status' = "stopped"
            /\ UNCHANGED <<results, pc>>

\* a repeated call with the same arguments is served by st.cache_data
CacheHit ==
    /\ status = "running" /\ call.stage = "idle"
    /\ \E r \in Requested :
          /\ Cached(r[1], r[2])
          /\ Return(r[1], r[2], CachedVal(r[1], r[2]), "cached")
    /\ UNCHANGED <<titles, dbExists, dbReadable, conn, opened, cache, filters, shown,
                   country_counts, decade_series, passes>>

\* sqlite3.connect succeeds: the `with` block is entered
Connect ==
    /\ status = "running" /\ call.stage = "idle"
    /\ \E r \in Requested :
          /\ ~Cached(r[1], r[2])
          /\ ~RaisesTypeError(r[2])
          /\ call' = [op |-> r[1], args |-> r[2], stage |-> "open"]
    /\ conn' = conn + 1
    /\ opened' = opened + 1
    /\ UNCHANGED <<titles, dbExists, dbReadable, pc, status, cache, results, notices,
                   filters, shown, country_counts, decade_series, passes, outcome>>

\* sqlite3.connect raises: no connection exists, close() fails silently
ConnectFail ==
    /\ status = "running" /\ call.stage = "idle"
    /\ \E r \in Requested :
          /\ ~Cached(r[1], r[2])
          /\ ~RaisesTypeError(r[2])
          /\ Stop(r[1], r[2], "Database connection error", "noconn")
    /\ UNCHANGED <<titles, dbExists, dbReadable, conn, opened, cache, filters, shown,
                   country_counts, decade_series, passes>>

\* the query runs, the function returns its table from inside the `with`
\* block, the connection is closed and the result is memoized
QueryOk ==
    /\ status = "running" /\ call.stage = "open"
    /\ ~BadQuery(call.args)
    /\ \E val \in Exec(call.op, call.args) :
          /\ cache' = cache \cup {[op |-> call.op, args |-> call.args, val |-> val]}
          /\ Return(call.op, call.args, val, "ok")
    /\ conn' = Close(conn)
    /\ UNCHANGED <<titles, dbExists, dbReadable, opened, filters, shown,
                   country_counts, decade_series, passes>>

\* the query raises inside the `with` block
QueryFail ==
    /\ status = "running" /\ call.stage = "open"
    /\ Stop(call.op, call.args, "Unexpected database error",
            IF BadQuery(call.args) THEN "rejected" ELSE "failed")
    /\ conn' = Close(conn)
    /\ UNCHANGED <<titles, dbExists, dbReadable, opened, cache, filters, shown,
                   country_counts, decade_series, passes>>

\* building the conditions raises: the function's `except Exception` reports
\* it with st.error and returns pd.DataFrame(), which is memoized like any
\* returned value; no connection was asked for
ArgumentError ==
    /\ status = "running" /\ call.stage = "idle"
    /\ \E r \in Requested :
          /\ ~Cached(r[1], r[2])
          /\ RaisesTypeError(r[2])
          /\ results' = [results EXCEPT ![r[1]] = EmptyFrame]
          /\ outcome' = [outcome EXCEPT ![r[1]] = "error"]
          /\ call' = [op |-> r[1], args |-> r[2], stage |-> "idle"]
          /\ cache' = cache \cup {[op |-> r[1], args |-> r[2], val |-> EmptyFrame]}
    /\ notices' = notices \cup {"Error fetching data"}
    /\ pc' = IF pc \in DirectPcs THEN pc ELSE NextPc(pc)
    /\ UNCHANGED <<titles, dbExists, dbReadable, status, conn, opened, filters, shown,
                   country_counts, decade_series, passes>>

----------------------------------------------------------------------------
(* Startup check *)

\* verify_database_exists reporting the problem without st.stop()
verify_without_stop ==
    /\ pc = "verify" /\ status = "running"
    /\ notices' = IF ~dbExists THEN notices \cup {"Database file not found"}
                  ELSE IF ~dbReadable THEN notices \cup {"Database file is not readable"}
                  ELSE notices
    /\ pc' = NextPc(pc)
    /\ UNCHANGED <<titles, dbExists, dbReadable, status, call, conn, opened, cache,
                   results, filters, shown, country_counts, decade_series, passes,
                   outcome>>

\* the module-level call of verify_database_exists
verify_database_exists ==
    /\ pc = "verify" /\ status = "running"
    /\ IF ~dbExists
       THEN /\ notices' = notices \cup {"Database file not found"}
            /\ status' = "stopped"
            /\ UNCHANGED pc
       ELSE IF ~dbReadable
       THEN /\ notices' = notices \cup {"Database file is not readable"}
            /\ status' = "stopped"
            /\ UNCHANGED pc
       ELSE /\ pc' = NextPc(pc)
            /\ UNCHANGED <<notices, status>>
    /\ UNCHANGED <<titles, dbExists, dbReadable, call, conn, opened, cache, results,
                   filters, shown, country_counts, decade_series, passes, outcome>>

----------------------------------------------------------------------------
(* Sidebar widgets *)

ContentTypes == {"All", "Movie", "Show"}

\* positions of the score slider a user may select (the year slider is
\* moved to the ends of its range)
SliderScores == {0, 70}

Sidebar ==
    /\ pc = "sidebar" /\ status = "running"
    /\ LET lo0 == results["get_year_range"][1]
           hi0 == results["get_year_range"][2]
           Y == {lo0, hi0}
       IN  \E ct \in ContentTypes, lo \in Y, hi \in Y, mi \in SliderScores :
              /\ lo <= hi
              \* the first pass of a session shows the widgets' default values
              /\ passes = 1 => ct = "All" /\ lo = lo0 /\ hi = hi0 /\ mi = 0
              /\ filters' = [content_type |-> ct, year_range |-> <<lo, hi>>,
                             min_imdb |-> mi]
    /\ pc' = NextPc(pc)
    /\ UNCHANGED <<titles, dbExists, dbReadable, status, call, conn, opened, cache,
                   results, notices, shown, country_counts, decade_series, passes,
                   outcome>>

----------------------------------------------------------------------------
(* Sections of the page *)

Sections == {"top_movies", "top_shows", "bottom_movies", "bottom_shows", "map",
             "decade", "age_cert", "seasons", "scores", "developer"}

\* `if not df.empty:` the table or chart, `else:` the st.info placeholder
Vis(df) == IF Len(df) > 0 THEN "data" ELSE "placeholder"

RenderRankings ==
    /\ pc = "rankings" /\ status = "running"
    /\ shown' = [shown EXCEPT !["top_movies"] = Vis(results["get_top_movies"]),
                              !["top_shows"] = Vis(results["get_top_shows"]),
                              !["bottom_movies"] = Vis(results["get_bottom_movies"]),
                              !["bottom_shows"] = Vis(results["get_bottom_shows"])]
    /\ pc' = NextPc(pc)
    /\ UNCHANGED <<titles, dbExists, dbReadable, status, call, conn, opened, cache,
                   results, notices, filters, country_counts, decade_series, passes,
                   outcome>>

\* ast.literal_eval of a production_countries text yields a list
IsList(s) == s \in {"[]", "['US']", "['IN']", "['US', 'IN']", "['US', 'US']"}

\* the list it yields
Decode(s) ==
    CASE s = "['US']"       -> <<"US">>
      [] s = "['IN']"       -> <<"IN">>
      [] s = "['US', 'IN']" -> <<"US", "IN">>
      [] s = "['US', 'US']" -> <<"US", "US">>
      [] OTHER              -> <<>>

RECURSIVE CountryTotalFirst(_, _, _)
\* the same loop crediting a group to the first code of its list only
CountryTotalFirst(df, c, n) ==
    IF n = 0 THEN 0
    ELSE LET s == df[n].production_countries
             hits == IF IsList(s) /\ Decode(s) # <<>> /\ Decode(s)[1] = c THEN 1 ELSE 0
         IN  CountryTotalFirst(df, c, n - 1) + hits * df[n].count

RECURSIVE CountryTotal(_, _, _)
\* country_counts[c] after the first n rows of map_data
CountryTotal(df, c, n) ==
    IF n = 0 THEN 0
    ELSE LET s == df[n].production_countries
             hits == IF IsList(s)
                     THEN Cardinality({k \in DOMAIN Decode(s) : Decode(s)[k] = c})
                     ELSE 0
         IN  CountryTotal(df, c, n - 1) + hits * df[n].count

\* the loop over map_data.iterrows()
FanOut(df) ==
    LET K == UNION {{Decode(df[k].production_countries)[j] :
                        j \in DOMAIN Decode(df[k].production_countries)} :
                    k \in {i \in DOMAIN df : IsList(df[i].production_countries)}}
    IN  [c \in K |-> CountryTotal(df, c, Len(df))]

\* the same section with the loop body outside any try/except: the
\* exception of a text that cannot be decoded ends the pass
RenderMapNoExcept ==
    /\ pc = "map" /\ status = "running"
    /\ LET df == results["get_production_countries_data"]
       IN  IF \E k \in DOMAIN df : ~IsList(df[k].production_countries)
           THEN /\ status' = "crashed"
                /\ notices' = notices \cup {"ValueError"}
                /\ UNCHANGED <<pc, shown, country_counts>>
           ELSE /\ country_counts' = FanOut(df)
                /\ shown' = [shown EXCEPT !["map"] =
                                IF DOMAIN FanOut(df) # {} THEN "data" ELSE "placeholder"]
                /\ pc' = NextPc(pc)
                /\ UNCHANGED <<status, notices>>
    /\ UNCHANGED <<titles, dbExists, dbReadable, call, conn, opened, cache,
                   results, filters, decade_series, passes, outcome>>

RenderMap ==
    /\ pc = "map" /\ status = "running"
    /\ LET df == results["get_production_countries_data"]
       IN  IF Len(df) > 0
           THEN /\ country_counts' = FanOut(df)
                /\ shown' = [shown EXCEPT !["map"] =
                                IF DOMAIN FanOut(df) # {} THEN "data" ELSE "placeholder"]
           ELSE /\ shown' = [shown EXCEPT !["map"] = "placeholder"]
                /\ UNCHANGED country_counts
    /\ pc' = NextPc(pc)
    /\ UNCHANGED <<titles, dbExists, dbReadable, status, call, conn, opened, cache,
                   results, notices, filters, decade_series, passes, outcome>>

\* decade_pivot.get(column, [0]*len(decade_pivot)) by decade, after
\* pivot_table(values='count', index='decade', columns='type', fill_value=0)
PivotColumn(df, column) ==
    LET D == {df[k].decade : k \in DOMAIN df}
    IN  [d \in D |->
            IF \E k \in DOMAIN df : df[k].decade = d /\ df[k].type = column
            THEN (CHOOSE r \in {df[k] : k \in DOMAIN df} :
                      r.decade = d /\ r.type = column).count
            ELSE 0]

NoSeries == [movies |-> <<>>, shows |-> <<>>]

RenderDecade ==
    /\ pc = "decade_chart" /\ status = "running"
    /\ LET df == results["get_decade_data"]
       IN  /\ shown' = [shown EXCEPT !["decade"] = Vis(df)]
           /\ decade_series' = IF Len(df) > 0
                               THEN [movies |-> PivotColumn(df, "MOVIE"),
                                     shows |-> PivotColumn(df, "SHOW")]
                               ELSE decade_series
    /\ pc' = NextPc(pc)
    /\ UNCHANGED <<titles, dbExists, dbReadable, status, call, conn, opened, cache,
                   results, notices, filters, country_counts, passes, outcome>>

RenderAgeCert ==
    /\ pc = "age_cert_chart" /\ status = "running"
    /\ shown' = [shown EXCEPT !["age_cert"] = Vis(results["get_age_certification_data"])]
    /\ pc' = NextPc(pc)
    /\ UNCHANGED <<titles, dbExists, dbReadable, status, call, conn, opened, cache,
                   results, notices, filters, country_counts, decade_series, passes,
                   outcome>>

RenderSeasons ==
    /\ pc = "seasons_chart" /\ status = "running"
    /\ shown' = [shown EXCEPT !["seasons"] = Vis(results["get_top_seasons_shows"])]
    /\ pc' = NextPc(pc)
    /\ UNCHANGED <<titles, dbExists, dbReadable, status, call, conn, opened, cache,
                   results, notices, filters, country_counts, decade_series, passes,
                   outcome>>

\* the keyword arguments st.markdown accepts besides the body
MarkdownKeywords == {"unsafe_allow_html", "help"}

\* the keyword the header of the average scores section is written with
ScoresHeaderKeyword == "unsafe_have_html"

\* Chart 4 and, with no call in between, the developer section that ends
\* the script.  st.markdown raises TypeError on a keyword it does not know;
\* nothing catches it and the pass ends there.
RenderScores ==
    /\ pc = "scores_chart" /\ status = "running"
    /\ IF ScoresHeaderKeyword \notin MarkdownKeywords
       THEN /\ status' = "crashed"
            /\ notices' = notices \cup {"TypeError"}
            /\ UNCHANGED <<pc, shown>>
       ELSE /\ shown' = [shown EXCEPT
                            !["scores"] = Vis(results["get_avg_scores_by_type"]),
                            !["developer"] = "data"]
            /\ pc' = NextPc(pc)
            /\ status' = "done"
            /\ UNCHANGED notices
    /\ UNCHANGED <<titles, dbExists, dbReadable, call, conn, opened, cache, results,
                   filters, country_counts, decade_series, passes, outcome>>

\* a user interaction re-runs the script from the top; only the cache and
\* the widget values outlive the pass
Rerun ==
    /\ pc \notin DirectPcs /\ status # "running"
    /\ passes < MaxPasses
    /\ passes' = passes + 1
    /\ pc' = "verify"
    /\ status' = "running"
    /\ call' = NoCall
    /\ results' = [op \in Ops |-> EmptyFrame]
    /\ outcome' = [op \in Ops |-> "none"]
    /\ notices' = {}
    /\ shown' = [s \in Sections |-> "none"]
    /\ country_counts' = <<>>
    /\ decade_series' = NoSeries
    /\ opened' = 0
    /\ UNCHANGED <<titles, dbExists, dbReadable, conn, cache, filters>>

----------------------------------------------------------------------------
(* Tables *)

Row(t, ty, y, i, tm, cert, pcs, se) ==
    [title |-> t, type |-> ty, release_year |-> y, imdb_score |-> i,
     tmdb_score |-> tm, age_certification |-> cert, production_countries |-> pcs,
     seasons |-> se]

TablesOf(Rows, n) == UNION {[1..k -> Rows] : k \in 0..n}

\* rows of the catalog the script pass is run on
ScriptRows ==
    {Row("X", "MOVIE", 1987, 85, 70, "PG", "['US']", NULL),
     Row("Y", "SHOW", 2021, 60, NULL, "", "['US', 'IN']", 3),
     Row("Y", "SHOW", 2020, 72, 64, "TV-MA", "['US']", 4),
     Row("Z", "Movie", 1939, NULL, 50, "N/A", "US", NULL),
     Row("W", "MOVIE", NULL, 60, 60, NullText, "[]", NULL)}

InitCommon ==
    /\ status = "running"
    /\ call = NoCall
    /\ conn = 0
    /\ opened = 0
    /\ cache = {}
    /\ results = [op \in Ops |-> EmptyFrame]
    /\ outcome = [op \in Ops |-> "none"]
    /\ notices = {}
    /\ filters = [content_type |-> "All", year_range |-> <<0, 0>>, min_imdb |-> 0]
    /\ shown = [s \in Sections |-> "none"]
    /\ country_counts = <<>>
    /\ decade_series = NoSeries
    /\ passes = 1

Init ==
    /\ titles \in TablesOf(ScriptRows, MaxScriptRows)
    /\ dbExists \in BOOLEAN
    /\ dbReadable \in {r \in BOOLEAN : r => dbExists}
    /\ pc = "verify"
    /\ InitCommon

Next ==
    \/ verify_database_exists
    \/ CacheHit
    \/ Connect
    \/ ConnectFail
    \/ QueryOk
    \/ QueryFail
    \/ Sidebar
    \/ RenderRankings
    \/ RenderMap
    \/ RenderDecade
    \/ RenderAgeCert
    \/ RenderSeasons
    \/ RenderScores
    \/ Rerun

Spec == Init /\ [][Next]_vars

\* the statements of the script; a pass that has begun runs on its own,
\* statement after statement, until it ends, halts or raises
ScriptStep ==
    \/ verify_database_exists
    \/ CacheHit
    \/ Connect
    \/ ConnectFail
    \/ QueryOk
    \/ QueryFail
    \/ Sidebar
    \/ RenderRankings
    \/ RenderMap
    \/ RenderDecade
    \/ RenderAgeCert
    \/ RenderSeasons
    \/ RenderScores

\* the script pass with the interpreter never pausing inside a pass; a
\* further interaction of the user may or may not come
SpecLive == Init /\ [][Next]_vars /\ WF_vars(ScriptStep)

----------------------------------------------------------------------------
(* Direct calls of the query functions on a populated store *)

RECURSIVE SetToSeq(_)
SetToSeq(S) ==
    IF S = {} THEN <<>>
    ELSE LET x == CHOOSE y \in S : TRUE
         IN  <<x>> \o SetToSeq(S \ {x})

\* the tables of at most n rows drawn from Rows, one per multiset of rows:
\* no operation reads the stored order of the rows (rows with equal sort
\* keys come back in any order), so one arrangement stands for all
Tables(Rows, n) ==
    LET L == SetToSeq(Rows)
    IN  UNION {{[k \in 1..m |-> L[f[k]]] :
                   f \in {g \in [1..m -> 1..Len(L)] :
                             \A i \in 1..(m - 1) : g[i] <= g[i + 1]}} :
               m \in 0..n}

InitDirect(p, Rows) ==
    /\ titles \in Tables(Rows, MaxRows)
    /\ dbExists = TRUE
    /\ dbReadable = TRUE
    /\ pc = p
    /\ InitCommon

NextDirect ==
    \/ CacheHit
    \/ Connect
    \/ ConnectFail
    \/ QueryOk
    \/ QueryFail

\* rows for calls of every operation: the score is absent, zero or positive
CallRows ==
    {Row("X", ty, 1987, i, 70, "PG", "['US']", 3) :
        ty \in {"MOVIE", "SHOW"}, i \in {NULL, 0, 60}}

SpecCalls == InitDirect("direct", CallRows) /\ [][NextDirect]_vars

\* rows for the ranking operations
RankRows ==
    {Row("X", ty, y, i, 70, "PG", "['US']", NULL) :
        ty \in {"MOVIE", "SHOW"}, y \in {1987, 2021}, i \in {NULL, 60, 85}}

SpecRank == InitDirect("direct_rank", RankRows) /\ [][NextDirect]_vars

\* rows for get_top_seasons_shows
SeasonRows ==
    {Row(t, ty, y, 85, 70, "PG", "['US']", se) :
        t \in {"X", "Y"}, ty \in {"MOVIE", "SHOW"}, y \in {1987, 2021},
        se \in {NULL, 3, 4}}

SpecSeasons == InitDirect("direct_seasons", SeasonRows) /\ [][NextDirect]_vars

\* rows for get_decade_data
DecadeRows ==
    {Row("X", ty, y, 85, 70, "PG", "['US']", NULL) :
        ty \in {"MOVIE", "SHOW"}, y \in {NULL, 1939, 1940, 1987, 2021}}

SpecDecade == InitDirect("direct_decade", DecadeRows) /\ [][NextDirect]_vars

\* rows for get_avg_scores_by_type
AvgRows ==
    {Row("X", ty, 1987, i, tm, "PG", "['US']", NULL) :
        ty \in {"MOVIE", "SHOW"}, i \in {NULL, 60, 85}, tm \in {NULL, 55, 70}}

SpecAvg == InitDirect("direct_avg", AvgRows) /\ [][NextDirect]_vars

\* rows for calls with arguments that are not filter values
FilterRows ==
    {Row("X", ty, y, i, 70, "PG", "['US']", NULL) :
        ty \in {"MOVIE", "SHOW"}, y \in {1987, 2021}, i \in {60, 85}}

NextFilters ==
    \/ CacheHit
    \/ Connect
    \/ ConnectFail
    \/ QueryOk
    \/ QueryFail
    \/ ArgumentError

SpecFilters == InitDirect("direct_filters", FilterRows) /\ [][NextFilters]_vars

\* rows of a catalog of movies of one year that differ in their
\* production_countries text
MapRows ==
    {Row("X", "MOVIE", 1987, 85, 70, "PG", pcs, NULL) :
        pcs \in {NullText, "", "[]", "US", "['US']", "['IN']", "['US', 'IN']",
                 "['US', 'US']"}}

InitMap ==
    /\ titles \in Tables(MapRows, MaxScriptRows)
    /\ dbExists \in BOOLEAN
    /\ dbReadable \in {r \in BOOLEAN : r => dbExists}
    /\ pc = "verify"
    /\ InitCommon

\* the script pass on such a catalog
SpecMap == InitMap /\ [][Next]_vars

\* rows of a catalog whose type values differ in letter case
CaseRows ==
    {Row("X", ty, 1987, 85, 70, "PG", "['US']", 3) :
        ty \in {"MOVIE", "Movie", "SHOW", "Show"}}

InitCase ==
    /\ titles \in Tables(CaseRows, MaxScriptRows)
    /\ dbExists \in BOOLEAN
    /\ dbReadable \in {r \in BOOLEAN : r => dbExists}
    /\ pc = "verify"
    /\ InitCommon

\* the script pass on such a catalog
SpecCase == InitCase /\ [][Next]_vars

----------------------------------------------------------------------------
(* Properties of the script pass *)

\* C1: when the query of an aggregation operation fails inside the
\* connection scope, the operation returns the empty table, its own
\* non-fatal notice is surfaced and the pass goes on to the next statement
\* instead of halting.
QueryFailureIsSoft ==
    \A op \in AggOps :
        outcome[op] = "failed" =>
            /\ status # "stopped"
            /\ results[op] = EmptyFrame
            /\ pc # "direct" => \E p \in CallPcs : OpAt(p) = op /\ pc # p

\* C2: a connection is opened or a query function called only after
\* verify_database_exists found the store file present and readable; with
\* the file missing or unreadable the pass never gets past the check.
QueriesOnlyAfterVerify ==
    /\ (conn > 0 \/ opened > 0 \/ call.stage = "open"
            \/ \E op \in Ops : outcome[op] # "none")
          => dbExists /\ dbReadable /\ pc # "verify"
    /\ ~(dbExists /\ dbReadable) => pc = "verify" /\ cache = {}

\* C2 witness: the file is missing and the pass has halted at the check
HaltedAtVerify ==
    ~dbExists /\ status = "stopped" /\ pc = "verify" /\ notices # {} /\ opened = 0

\* C3: at most one connection is open at any moment, one is open exactly
\* while a call is inside the connection scope, each query run in the pass
\* opened exactly one, and none stays open when the call has ended, be it
\* by return, by query failure or by the halt of the pass.
ConnectionScoped ==
    /\ conn \in {0, 1}
    /\ conn = 1 <=> call.stage = "open"
    /\ status # "running" => conn = 0
    /\ opened = Cardinality({op \in Ops : outcome[op] \in {"ok", "failed"}})
                   + (IF call.stage = "open" THEN 1 ELSE 0)

\* C3 witness: a query failed after earlier calls returned, the pass has
\* halted and no connection is open
ReleasedAfterFailure ==
    /\ status = "stopped" /\ conn = 0 /\ opened >= 2
    /\ \E op \in AggOps : outcome[op] = "failed"
    /\ \E op \in AggOps : outcome[op] = "ok"

----------------------------------------------------------------------------
(* Properties of the query functions, on direct calls *)

\* the latest call returned a table (computed or from the cache)
Returned(op) == call.op = op /\ call.stage = "idle" /\ outcome[op] \in {"ok", "cached"}

\* C4: a minimum score of 0 is no score filter: whatever an aggregation
\* operation returns for min_imdb=0 it may return for min_imdb=None with the
\* other arguments unchanged, and the other way round; the tables the two
\* calls may return are the same, rows without imdb_score included.
ZeroScoreIsNoFilter ==
    \A op \in AggOps :
        (Returned(op) /\ call.args.min_imdb \in {0, NULL}) =>
            LET zero == [call.args EXCEPT !.min_imdb = 0]
                none == [call.args EXCEPT !.min_imdb = NULL]
            IN  /\ results[op] \in Exec(op, zero)
                /\ results[op] \in Exec(op, none)
                /\ Exec(op, zero) = Exec(op, none)

\* C4 witness: a call with min_imdb=0 returned a count that includes a row
\* whose imdb_score is absent
ZeroScoreKeepsUnscored ==
    /\ Returned("get_age_certification_data")
    /\ call.args.min_imdb = 0
    /\ call.args.year_min = NULL /\ call.args.year_max = NULL
    /\ call.args.content_type = "All"
    /\ Len(titles) = 3
    /\ \E i \in DOMAIN titles : titles[i].imdb_score = NULL
    /\ Len(results["get_age_certification_data"]) = 1
    /\ results["get_age_certification_data"][1].count = 3

\* the FilterSet as the specification words it: inclusive year bounds,
\* absent meaning unbounded
InYears(row, a) ==
    /\ a.year_min = NULL \/ (row.release_year # NULL /\ row.release_year >= a.year_min)
    /\ a.year_max = NULL \/ (row.release_year # NULL /\ row.release_year <= a.year_max)

\* inclusive lower bound on imdb_score, absent or 0 meaning no bound
AboveScore(row, a) ==
    a.min_imdb \in {NULL, 0} \/ (row.imdb_score # NULL /\ row.imdb_score >= a.min_imdb)

\* C5: the scores of the rows TopMovies / TopShows return never increase
\* down the table, those of BottomMovies / BottomShows never decrease, and
\* no returned row lacks its imdb_score.
RankingsAreSorted ==
    \A op \in RankOps :
        Returned(op) =>
            LET r == results[op]
            IN  /\ \A k \in DOMAIN r : r[k].imdb_score # NULL
                /\ \A i, j \in DOMAIN r :
                      i < j =>
                          IF op \in {"get_top_movies", "get_top_shows"}
                          THEN r[i].imdb_score >= r[j].imdb_score
                          ELSE r[i].imdb_score <= r[j].imdb_score

\* C5 witness: BottomMovies returned two rows of different scores from a
\* table that also holds a movie without score
BottomTwoReturned ==
    /\ Returned("get_bottom_movies")
    /\ Len(results["get_bottom_movies"]) = 2
    /\ results["get_bottom_movies"][1].imdb_score < results["get_bottom_movies"][2].imdb_score
    /\ \E i \in DOMAIN titles :
          Upper(titles[i].type) = "MOVIE" /\ titles[i].imdb_score = NULL

\* rowids of the MOVIE rows with a score that pass the filters
EligibleMovies(a) ==
    {i \in DOMAIN titles :
        /\ Upper(titles[i].type) = "MOVIE"
        /\ titles[i].imdb_score # NULL
        /\ InYears(titles[i], a)
        /\ AboveScore(titles[i], a)}

\* two result tables have a row in common
Shared(t, b) == \E i \in DOMAIN t, j \in DOMAIN b : t[i] = b[j]

\* C6 as stated: whenever the TopMovies and BottomMovies results for the
\* same arguments share no row, limit*2 does not exceed the number of
\* eligible rows.
DisjointOnlyWhenRoom ==
    /\ Returned("get_top_movies") =>
          \A b \in get_bottom_movies(call.args) :
              ~Shared(results["get_top_movies"], b) =>
                  2 * call.args.limit <= Cardinality(EligibleMovies(call.args))
    /\ Returned("get_bottom_movies") =>
          \A t \in get_top_movies(call.args) :
              ~Shared(t, results["get_bottom_movies"]) =>
                  2 * call.args.limit <= Cardinality(EligibleMovies(call.args))

\* C6 amended: whenever the two results share no row and at least one row
\* is eligible, limit*2 does not exceed the number of eligible rows.
DisjointOnlyWhenRoomOrEmpty ==
    /\ Returned("get_top_movies") =>
          \A b \in get_bottom_movies(call.args) :
              (~Shared(results["get_top_movies"], b)
                    /\ EligibleMovies(call.args) # {}) =>
                  2 * call.args.limit <= Cardinality(EligibleMovies(call.args))
    /\ Returned("get_bottom_movies") =>
          \A t \in get_top_movies(call.args) :
              (~Shared(t, results["get_bottom_movies"])
                    /\ EligibleMovies(call.args) # {}) =>
                  2 * call.args.limit <= Cardinality(EligibleMovies(call.args))

\* C6 witness: three movies are eligible, TopMovies returned one row and
\* BottomMovies may return another
DisjointTopAndBottom ==
    /\ Returned("get_top_movies")
    /\ call.args.limit = 1
    /\ Cardinality(EligibleMovies(call.args)) = 3
    /\ Len(results["get_top_movies"]) = 1
    /\ \E b \in get_bottom_movies(call.args) :
          Len(b) = 1 /\ ~Shared(results["get_top_movies"], b)

RECURSIVE ColumnSum(_, _, _)
\* the sum of column col over those of the first n rows whose rowid is in S
ColumnSum(S, col, n) ==
    IF n = 0 THEN 0
    ELSE ColumnSum(S, col, n - 1) + (IF n \in S THEN titles[n][col] ELSE 0)

RECURSIVE CountSum(_, _)
\* the sum of the count column over the first n rows of a result table
CountSum(r, n) == IF n = 0 THEN 0 ELSE CountSum(r, n - 1) + r[n].count

\* rowids of the SHOW rows with a season count that pass the filters
EligibleShows(a) ==
    {i \in DOMAIN titles :
        /\ Upper(titles[i].type) = "SHOW"
        /\ titles[i].seasons # NULL
        /\ InYears(titles[i], a)
        /\ AboveScore(titles[i], a)}

\* C7: TopSeasonsShows returns one row per unique title of the eligible SHOW
\* rows with seasons, at most limit of them; a row's total_seasons is the
\* sum of seasons over all eligible rows of its title; the rows come by
\* total_seasons descending and no title left out has a larger total.
SeasonsSummedPerTitle ==
    Returned("get_top_seasons_shows") =>
        LET r == results["get_top_seasons_shows"]
            a == call.args
            E == EligibleShows(a)
            T == {titles[i].title : i \in E}
            Total(t) == ColumnSum({i \in E : titles[i].title = t}, "seasons", Len(titles))
        IN  /\ Len(r) = Min(a.limit, Cardinality(T))
            /\ \A i, j \in DOMAIN r : i # j => r[i].title # r[j].title
            /\ \A k \in DOMAIN r : r[k].title \in T /\ r[k].total_seasons = Total(r[k].title)
            /\ \A i, j \in DOMAIN r : i < j => r[i].total_seasons >= r[j].total_seasons
            /\ \A t \in T : \A k \in DOMAIN r :
                  (\A j \in DOMAIN r : r[j].title # t) => Total(t) <= r[k].total_seasons

\* C7 witness: title X has a row with 3 and a row with 4 seasons in
\* different years, and the table returned gives X a total of 7
TwoPartShowSummed ==
    /\ Returned("get_top_seasons_shows")
    /\ \E i, j \in DOMAIN titles :
          /\ titles[i].title = "X" /\ titles[i].seasons = 3 /\ titles[i].release_year = 1987
          /\ titles[j].title = "X" /\ titles[j].seasons = 4 /\ titles[j].release_year = 2021
    /\ \E k \in DOMAIN results["get_top_seasons_shows"] :
          /\ results["get_top_seasons_shows"][k].title = "X"
          /\ results["get_top_seasons_shows"][k].total_seasons = 7

\* the content type selected, if any, is the row's
TypeMatches(row, a) ==
    \/ a.content_type \in {NoType, "All"}
    \/ a.content_type = "Movie" /\ Upper(row.type) = "MOVIE"
    \/ a.content_type = "Show" /\ Upper(row.type) = "SHOW"

\* rowids of the rows the decade histogram counts
DecadeEligible(a) ==
    {i \in DOMAIN titles :
        /\ titles[i].release_year # NULL
        /\ titles[i].release_year >= 1940
        /\ TypeMatches(titles[i], a)
        /\ InYears(titles[i], a)
        /\ AboveScore(titles[i], a)}

\* C8: every (decade, type, count) row of the DecadeHistogram is a decade
\* from 1940 on whose count is the number of eligible rows of that type
\* with decade <= release_year < decade + 10; rows without release_year or
\* from before 1940 are counted nowhere, every eligible row in exactly one
\* bucket, and the rows come in ascending decade order.
DecadeBuckets ==
    Returned("get_decade_data") =>
        LET r == results["get_decade_data"]
            E == DecadeEligible(call.args)
        IN  /\ \A i, j \in DOMAIN r : i < j => r[i].decade <= r[j].decade
            /\ \A i, j \in DOMAIN r :
                  i # j => r[i].decade # r[j].decade \/ r[i].type # r[j].type
            /\ \A k \in DOMAIN r :
                  /\ r[k].decade % 10 = 0
                  /\ r[k].decade >= 1940
                  /\ r[k].count > 0
                  /\ r[k].count =
                        Cardinality({i \in E :
                            /\ titles[i].type = r[k].type
                            /\ r[k].decade <= titles[i].release_year
                            /\ titles[i].release_year < r[k].decade + 10})
            /\ CountSum(r, Len(r)) = Cardinality(E)

\* C8 witness: the table holds a row of 1987, one of 1939 and one without
\* year, and the histogram is the single bucket 1980 with count 1
Bucket1980Only ==
    /\ Returned("get_decade_data")
    /\ call.args.year_min = NULL /\ call.args.year_max = NULL
    /\ \E i, j, k \in DOMAIN titles :
          /\ titles[i].release_year = 1987
          /\ titles[j].release_year = 1939
          /\ titles[k].release_year = NULL
    /\ Len(results["get_decade_data"]) = 1
    /\ results["get_decade_data"][1].decade = 1980
    /\ results["get_decade_data"][1].count = 1

\* rowids of the rows of type t that the averages are taken over
AvgEligible(a, t) ==
    {i \in DOMAIN titles :
        /\ titles[i].type = t
        /\ titles[i].imdb_score # NULL
        /\ titles[i].tmdb_score # NULL
        /\ InYears(titles[i], a)
        /\ AboveScore(titles[i], a)}

\* v, in hundredths, is the quotient sum/n of a sum in tenths rounded to
\* 2 decimal places
IsRoundedMean(v, sum, n) ==
    /\ 2 * (v * n - 10 * sum) <= n
    /\ 2 * (10 * sum - v * n) <= n

\* C9: AverageScoresByType has one row for each type with a row carrying
\* both scores, and its two values are the means of imdb_score and of
\* tmdb_score over exactly the eligible rows of that type carrying both
\* scores, each rounded to 2 decimal places.
AveragesOverBothScores ==
    Returned("get_avg_scores_by_type") =>
        LET r == results["get_avg_scores_by_type"]
            a == call.args
            T == {titles[i].type : i \in DOMAIN titles}
        IN  /\ \A i, j \in DOMAIN r : i # j => r[i].type # r[j].type
            /\ \A t \in T :
                  AvgEligible(a, t) # {} => \E k \in DOMAIN r : r[k].type = t
            /\ \A k \in DOMAIN r :
                  LET M == AvgEligible(a, r[k].type)
                  IN  /\ M # {}
                      /\ IsRoundedMean(r[k].avg_imdb_score,
                                       ColumnSum(M, "imdb_score", Len(titles)),
                                       Cardinality(M))
                      /\ IsRoundedMean(r[k].avg_tmdb_score,
                                       ColumnSum(M, "tmdb_score", Len(titles)),
                                       Cardinality(M))

\* C9 witness: of three movies one lacks its tmdb_score, and the averages
\* returned are those of the other two (7.25 and 6.25)
AverageSkipsHalfScored ==
    /\ Returned("get_avg_scores_by_type")
    /\ call.args.min_imdb = NULL
    /\ Len(titles) = 3
    /\ \A i \in DOMAIN titles : titles[i].type = "MOVIE" /\ titles[i].imdb_score # NULL
    /\ Cardinality({i \in DOMAIN titles : titles[i].tmdb_score = NULL}) = 1
    /\ \E i \in DOMAIN titles : titles[i].tmdb_score = NULL /\ titles[i].imdb_score = 85
    /\ Len(results["get_avg_scores_by_type"]) = 1
    /\ results["get_avg_scores_by_type"][1].avg_imdb_score = 725
    /\ results["get_avg_scores_by_type"][1].avg_tmdb_score = 625

\* the section of the page that shows an operation's table
SectionOf(op) ==
    CASE op = "get_top_movies" -> "top_movies"
      [] op = "get_bottom_movies" -> "bottom_movies"
      [] op = "get_top_shows" -> "top_shows"
      [] op = "get_bottom_shows" -> "bottom_shows"
      [] op = "get_production_countries_data" -> "map"
      [] op = "get_decade_data" -> "decade"
      [] op = "get_age_certification_data" -> "age_cert"
      [] op = "get_top_seasons_shows" -> "seasons"
      [] op = "get_avg_scores_by_type" -> "scores"

\* C10: an aggregation operation run on a dataset without eligible rows
\* (here: the empty titles table) returns the empty table and not an error,
\* and the pass goes on: it does not crash, and once it has ended the
\* section of every operation that returned the empty table shows its
\* no-data placeholder.
EmptyResultShowsPlaceholder ==
    /\ \A op \in RankOps \cup AggOps :
          titles = <<>> /\ outcome[op] = "ok" => results[op] = EmptyFrame
    /\ (\E op \in RankOps \cup AggOps :
            outcome[op] \in {"ok", "cached"} /\ results[op] = EmptyFrame)
          => /\ status # "crashed"
             /\ status = "done" =>
                   \A op \in RankOps \cup AggOps :
                       outcome[op] \in {"ok", "cached"} /\ results[op] = EmptyFrame
                           => shown[SectionOf(op)] = "placeholder"

----------------------------------------------------------------------------
(* Memoization *)

\* the cache holds a result of operation op for the arguments the script
\* passes to it under the current filters
HasEntry(op) == \E e \in cache : e.op = op /\ e.args = ScriptArgs(op)

EntryVal(op) == (CHOOSE e \in cache : e.op = op /\ e.args = ScriptArgs(op)).val

\* there is one entry per operation and argument tuple, and a call served
\* from the cache returned the entry of exactly its own arguments
OneEntryPerKey ==
    /\ \A e1, e2 \in cache : e1.op = e2.op /\ e1.args = e2.args => e1 = e2
    /\ \A op \in Ops :
          outcome[op] = "cached" =>
              [op |-> op, args |-> ScriptArgs(op), val |-> results[op]] \in cache

\* a call whose arguments have an entry is answered with that entry, with no
\* connection opened and no query run; a call whose arguments have none is
\* not answered from the cache
HitOrMiss ==
    \A op \in Ops :
        (status = "running" /\ pc \in CallPcs /\ OpAt(pc) = op) =>
            IF HasEntry(op)
            THEN /\ conn' = conn /\ opened' = opened /\ cache' = cache
                 /\ call'.stage = "idle"
                 /\ pc' # pc => /\ outcome'[op] = "cached"
                                /\ results'[op] = EntryVal(op)
            ELSE outcome'[op] # "cached"

\* C11: within one process and on an unchanged store, a call of an
\* operation with the argument tuple of an earlier call returns the earlier
\* result from the cache without opening a connection or running the query
\* again, and calls with different argument tuples never share an entry.
MemoizedIdempotence == []OneEntryPerKey /\ [][HitOrMiss]_vars

\* C11 witness: in the second pass the content type was changed to Movie;
\* the ranking call, whose arguments are the same, was served from the
\* cache and the map query, whose arguments differ, was run
SecondPassServedFromCache ==
    /\ passes = 2
    /\ filters.content_type = "Movie"
    /\ outcome["get_top_movies"] = "cached"
    /\ results["get_top_movies"] # EmptyFrame
    /\ outcome["get_production_countries_data"] = "ok"
    /\ opened = 1

----------------------------------------------------------------------------
(* Arguments that are not filter values *)

\* the arguments a with every field that is no filter value left unset
Unset(a) ==
    [a EXCEPT !.year_min = IF @ = BadNumber THEN NULL ELSE @,
              !.year_max = IF @ = BadNumber THEN NULL ELSE @,
              !.min_imdb = IF @ = BadNumber THEN NULL ELSE @,
              !.content_type = IF @ \notin {NoType, "All", "Movie", "Show"}
                               THEN NoType ELSE @]

\* C12: a call with a malformed filter field (a content type that is none
\* of All, Movie, Show; a year bound or minimum score that is no number)
\* never fails because of it and returns what the same call with that field
\* unset returns: no error is reported, the pass is not halted and no other
\* restriction is applied.
MalformedFilterIsNoFilter ==
    \A op \in TypedOps :
        (call.op = op /\ call.stage = "idle" /\ call.args # Unset(call.args)
                /\ outcome[op] \notin {"none", "noconn", "failed"}) =>
            /\ outcome[op] \in {"ok", "cached"}
            /\ status = "running"
            /\ notices = {}
            /\ results[op] \in Exec(op, Unset(call.args))

----------------------------------------------------------------------------
(* The filters of the sidebar as a conjunction *)

\* the row is of the content type selected in the sidebar
SelectedType(row) ==
    \/ filters.content_type = "All"
    \/ filters.content_type = "Movie" /\ Upper(row.type) = "MOVIE"
    \/ filters.content_type = "Show" /\ Upper(row.type) = "SHOW"

\* the type constraint of operation op: the selected content type for every
\* operation when everywhere is TRUE; otherwise the selected content type
\* for the operations that take one, the operation's own type for the
\* rankings and the seasons, none for the averages
TypeOk(op, row, everywhere) ==
    IF everywhere \/ op \in TypedOps THEN SelectedType(row)
    ELSE IF op \in {"get_top_movies", "get_bottom_movies"} THEN Upper(row.type) = "MOVIE"
    ELSE IF op \in {"get_top_shows", "get_bottom_shows", "get_top_seasons_shows"}
         THEN Upper(row.type) = "SHOW"
    ELSE TRUE

\* rowids of the rows that satisfy every active constraint at once
Satisfying(op, everywhere) ==
    {i \in DOMAIN titles :
        /\ TypeOk(op, titles[i], everywhere)
        /\ titles[i].release_year # NULL
        /\ titles[i].release_year >= filters.year_range[1]
        /\ titles[i].release_year <= filters.year_range[2]
        /\ filters.min_imdb > 0 =>
              titles[i].imdb_score # NULL /\ titles[i].imdb_score >= filters.min_imdb}

\* every row of the table operation op returned in this pass is made of
\* rows of Satisfying alone
ContributorsSatisfy(op, everywhere) ==
    LET r == results[op]
        S == Satisfying(op, everywhere)
        n == Len(titles)
    IN  CASE op \in RankOps ->
               \A k \in DOMAIN r : \E i \in S :
                   /\ titles[i].title = r[k].title
                   /\ titles[i].imdb_score = r[k].imdb_score
                   /\ titles[i].release_year = r[k].release_year
          [] op = "get_top_seasons_shows" ->
               \A k \in DOMAIN r :
                   r[k].total_seasons =
                       ColumnSum({i \in S : titles[i].seasons # NULL
                                            /\ titles[i].title = r[k].title}, "seasons", n)
          [] op = "get_production_countries_data" ->
               \A k \in DOMAIN r :
                   r[k].count = Cardinality({i \in S :
                       titles[i].production_countries = r[k].production_countries})
          [] op = "get_age_certification_data" ->
               \A k \in DOMAIN r :
                   r[k].count = Cardinality({i \in S :
                       titles[i].age_certification = r[k].age_certification})
          [] op = "get_decade_data" ->
               \A k \in DOMAIN r :
                   r[k].count = Cardinality({i \in S :
                       /\ titles[i].type = r[k].type
                       /\ r[k].decade <= titles[i].release_year
                       /\ titles[i].release_year < r[k].decade + 10})
          [] op = "get_avg_scores_by_type" ->
               \A k \in DOMAIN r :
                   LET M == {i \in S : /\ titles[i].type = r[k].type
                                       /\ titles[i].imdb_score # NULL
                                       /\ titles[i].tmdb_score # NULL}
                   IN  /\ M # {}
                       /\ IsRoundedMean(r[k].avg_imdb_score,
                                        ColumnSum(M, "imdb_score", n), Cardinality(M))
                       /\ IsRoundedMean(r[k].avg_tmdb_score,
                                        ColumnSum(M, "tmdb_score", n), Cardinality(M))

\* C13 as stated: in the pass, every row that contributes to the result of
\* any aggregation operation is of the selected content type (when not
\* All), has yearMin <= release_year <= yearMax and, when minScore > 0,
\* imdb_score >= minScore.
FiltersAreConjunction ==
    \A op \in AggOps :
        outcome[op] \in {"ok", "cached"} => ContributorsSatisfy(op, TRUE)

\* C13: every contributing row has yearMin <= release_year <= yearMax and,
\* when minScore > 0, imdb_score >= minScore, and satisfies the type
\* constraint of the operation at the same time: the selected content type
\* (when not All) for ProductionCountries, DecadeHistogram and
\* AgeCertificationTop, the operation's own type for the rankings and
\* TopSeasonsShows, none for AverageScoresByType.
FiltersAreConjunctionPerOperation ==
    \A op \in AggOps :
        outcome[op] \in {"ok", "cached"} => ContributorsSatisfy(op, FALSE)

\* C13 witness: with Show, the whole year range and a minimum score of 7.0
\* selected on a catalog of a movie and a show, the decade histogram counts
\* the show alone while the averages have a row for either type
ShowOnlyHistogramBothAverages ==
    /\ filters.content_type = "Show" /\ filters.min_imdb = 70
    /\ filters.year_range = <<1987, 2020>>
    /\ Len(titles) = 2
    /\ outcome["get_avg_scores_by_type"] = "ok"
    /\ results["get_decade_data"] = <<[decade |-> 2020, type |-> "SHOW", count |-> 1]>>
    /\ Len(results["get_top_movies"]) = 1
    /\ Len(results["get_avg_scores_by_type"]) = 2

----------------------------------------------------------------------------
(* Production countries *)

\* the country codes a production_countries text can hold
Codes == {"US", "IN"}

\* the number of times code c stands in the list the text s decodes to
Occurrences(s, c) ==
    IF IsList(s) THEN Cardinality({j \in DOMAIN Decode(s) : Decode(s)[j] = c}) ELSE 0

RECURSIVE GroupSum(_, _, _, _)
\* the sum of the counts of those of the first n groups of df whose list
\* holds c, each count taken once, or once per occurrence of c when
\* perOccurrence is TRUE
GroupSum(df, c, n, perOccurrence) ==
    IF n = 0 THEN 0
    ELSE LET k == Occurrences(df[n].production_countries, c)
         IN  GroupSum(df, c, n - 1, perOccurrence)
                + (IF perOccurrence THEN k ELSE Min(k, 1)) * df[n].count

\* the total the map shows for country c
Shown(c) == IF c \in DOMAIN country_counts THEN country_counts[c] ELSE 0

\* the groups returned are the distinct production_countries texts of the
\* eligible rows other than NULL, '' and '[]', each with the number of
\* eligible rows that carry it, at most 50 of them by count descending
GroupedByRawText ==
    LET r == results["get_production_countries_data"]
        S == Satisfying("get_production_countries_data", FALSE)
        V == {titles[i].production_countries : i \in S} \ {NullText, "", "[]"}
    IN  /\ Len(r) = Min(CountryLimit, Cardinality(V))
        /\ \A i, j \in DOMAIN r :
              i # j => r[i].production_countries # r[j].production_countries
        /\ \A i, j \in DOMAIN r : i < j => r[i].count >= r[j].count
        /\ \A k \in DOMAIN r :
              /\ r[k].production_countries \in V
              /\ r[k].count = Cardinality({i \in S :
                     titles[i].production_countries = r[k].production_countries})

\* the map has been evaluated on a table the countries query returned
MapEvaluated ==
    /\ outcome["get_production_countries_data"] \in {"ok", "cached"}
    /\ shown["map"] # "none"

\* C14 as stated: the groups are those of the raw text, and the total shown
\* for a country is the sum of the counts of the returned groups whose
\* decoded list contains its code.
CountryTotalsSumGroups ==
    MapEvaluated =>
        /\ GroupedByRawText
        /\ \A c \in Codes :
              Shown(c) = GroupSum(results["get_production_countries_data"], c,
                                  Len(results["get_production_countries_data"]), FALSE)

\* C14: the groups are those of the raw text, and the total shown for a
\* country is the sum, over the returned groups, of the group's count times
\* the number of times the country's code stands in the group's decoded
\* list (the sum of the counts of the groups holding the code when no list
\* repeats a code).
CountryTotalsSumOccurrences ==
    MapEvaluated =>
        /\ GroupedByRawText
        /\ \A c \in Codes :
              Shown(c) = GroupSum(results["get_production_countries_data"], c,
                                  Len(results["get_production_countries_data"]), TRUE)

\* C14 witness: one row of ['US'] and one of ['US', 'IN'] make two groups
\* of count 1, and the map shows 2 for US and 1 for IN
RowCountedForBothCountries ==
    /\ MapEvaluated
    /\ Len(results["get_production_countries_data"]) = 2
    /\ \E k \in DOMAIN results["get_production_countries_data"] :
          results["get_production_countries_data"][k] =
              [production_countries |-> "['US', 'IN']", count |-> 1]
    /\ Shown("US") = 2
    /\ Shown("IN") = 1

----------------------------------------------------------------------------
(* Letter case of the type column *)

RECURSIVE TypeCount(_, _, _, _)
\* the sum of the counts of those of the first n rows of the histogram df
\* that are of decade d and whose type is ty in any letter case
TypeCount(df, d, ty, n) ==
    IF n = 0 THEN 0
    ELSE TypeCount(df, d, ty, n - 1)
            + (IF df[n].decade = d /\ Upper(df[n].type) = ty THEN df[n].count ELSE 0)

\* C15: type resolves to one of MOVIE and SHOW whatever its letter case:
\* AverageScoresByType has one row per type, DecadeHistogram one row per
\* decade and type, and the Movies and Shows series of the decade chart
\* hold, for every decade, the counts of all rows of that type.
TypeResolvesCaseInsensitively ==
    /\ outcome["get_avg_scores_by_type"] \in {"ok", "cached"} =>
          LET r == results["get_avg_scores_by_type"]
          IN  \A i, j \in DOMAIN r : i # j => Upper(r[i].type) # Upper(r[j].type)
    /\ outcome["get_decade_data"] \in {"ok", "cached"} =>
          LET r == results["get_decade_data"]
          IN  /\ \A i, j \in DOMAIN r :
                    i # j => r[i].decade # r[j].decade
                                \/ Upper(r[i].type) # Upper(r[j].type)
              /\ shown["decade"] = "data" =>
                    \A k \in DOMAIN r :
                        /\ decade_series.movies[r[k].decade] =
                              TypeCount(r, r[k].decade, "MOVIE", Len(r))
                        /\ decade_series.shows[r[k].decade] =
                              TypeCount(r, r[k].decade, "SHOW", Len(r))

----------------------------------------------------------------------------
(* Progress of the pass *)

\* the pass has got past the startup check of the store
PastStartup == status = "running" /\ pc # "verify"

\* C16: no failure of a section aborts the pass: a pass that got past the
\* startup check never halts or raises on the way and eventually reaches
\* the developer section that closes the page, whatever the data and
\* whichever section fails or has no data.
PassReachesDeveloper == [](PastStartup => <>(shown["developer"] = "data"))

----------------------------------------------------------------------------
(* Texts that cannot be decoded *)

\* the groups of df whose text decodes to a list
Decodable(df) == SelectSeq(df, LAMBDA g : IsList(g.production_countries))

\* the step of the map section: the pass goes on to the next statement
\* with no notice added, and the totals are those of the decodable groups
MapStepSkipsUndecodable ==
    (pc = "map" /\ status = "running" /\ vars' # vars) =>
        LET df == results["get_production_countries_data"]
            good == Decodable(df)
        IN  /\ status' = "running"
            /\ notices' = notices
            /\ pc' = NextPc(pc)
            /\ shown'["map"] # "none"
            /\ df # EmptyFrame =>
                  \A c \in Codes :
                      IF GroupSum(good, c, Len(good), TRUE) > 0
                      THEN /\ c \in DOMAIN country_counts'
                           /\ country_counts'[c] = GroupSum(good, c, Len(good), TRUE)
                      ELSE c \notin DOMAIN country_counts'

\* C17: a production_countries value that cannot be decoded into a list
\* is skipped silently by the fan-out: no error is surfaced, the pass goes
\* on, the group adds nothing to any total, and the totals are what the
\* other groups alone would give.
UndecodableGroupSkipped == [][MapStepSkipsUndecodable]_vars

\* C17 witness: the groups US (not decodable) and ['US'] were returned, the
\* map shows 1 for US and the pass has moved on without a notice
SkippedBareCode ==
    /\ MapEvaluated
    /\ pc = "decade_data" /\ status = "running" /\ notices = {}
    /\ outcome["get_decade_data"] = "none"
    /\ Len(results["get_production_countries_data"]) = 2
    /\ \E k \in DOMAIN results["get_production_countries_data"] :
          results["get_production_countries_data"][k].production_countries = "US"
    /\ country_counts = [c \in {"US"} |-> 1]

----------------------------------------------------------------------------
(* Rankings as top-k and bottom-k *)

\* rowids of the rows ranking operation op may return for arguments a
EligibleFor(op, a) ==
    {i \in DOMAIN titles :
        /\ Upper(titles[i].type) =
              (IF op \in {"get_top_movies", "get_bottom_movies"} THEN "MOVIE" ELSE "SHOW")
        /\ titles[i].imdb_score # NULL
        /\ InYears(titles[i], a)
        /\ AboveScore(titles[i], a)}

\* C18: for limit >= 0 a ranking returns exactly min(limit, eligible rows)
\* rows, each a different eligible row of the operation's type, and no
\* eligible row left out has a score strictly greater (TopMovies, TopShows)
\* or strictly smaller (BottomMovies, BottomShows) than a returned row.
RankingIsTopK ==
    \A op \in RankOps :
        (Returned(op) /\ call.args.limit >= 0) =>
            LET r == results[op]
                E == EligibleFor(op, call.args)
            IN  /\ Len(r) = Min(call.args.limit, Cardinality(E))
                /\ \E f \in [DOMAIN r -> E] :
                      /\ \A i, j \in DOMAIN r : i # j => f[i] # f[j]
                      /\ \A k \in DOMAIN r :
                            /\ titles[f[k]].title = r[k].title
                            /\ titles[f[k]].imdb_score = r[k].imdb_score
                            /\ titles[f[k]].release_year = r[k].release_year
                      /\ \A i \in E \ {f[k] : k \in DOMAIN r} : \A k \in DOMAIN r :
                            IF op \in {"get_top_movies", "get_top_shows"}
                            THEN titles[i].imdb_score <= r[k].imdb_score
                            ELSE titles[i].imdb_score >= r[k].imdb_score

\* C18 witness: TopShows with limit 1 returned one of two eligible shows
\* scored 6.0, leaving the other out, on a table that also holds a movie
\* scored 8.5
TopOneOfTwoShows ==
    /\ Returned("get_top_shows")
    /\ call.args.limit = 1
    /\ Cardinality(EligibleFor("get_top_shows", call.args)) = 2
    /\ \E i \in DOMAIN titles :
          Upper(titles[i].type) = "MOVIE" /\ titles[i].imdb_score = 85
    /\ Len(results["get_top_shows"]) = 1
    /\ results["get_top_shows"][1].imdb_score = 60

=============================================================================
